---- MODULE Spec2Model ----
\* Credential resolution (get_credentials) and the calendar event tools of
\* src/main.py, as a state machine over the process environment, the token
\* files and the calendar service's event store.
EXTENDS Integers, Sequences, FiniteSets, TLC

VARIABLES env, files, events, writes, tool, account, loaded, result, io, args, body

vars == <<env, files, events, writes, tool, account, loaded, result, io, args, body>>

----------------------------------------------------------------------------
\* Constants of the program

\* SCOPES, src/main.py:11-14
SCOPES == {"gmail.readonly", "calendar"}

\* keys of ACCOUNTS / ENV_TOKENS, src/main.py:19-30
ACCOUNTS == {"personal", "school", "work"}

\* account arguments tried: the known accounts and one unknown name
AccountNames == ACCOUNTS \cup {"nobody"}

----------------------------------------------------------------------------
\* Token records: the JSON held in an environment variable or a token file

\* a structured token record; token = an access token is present,
\* expired = its expiry lies in the past, refresh_token = one is present
Json(t, x, r, s) == [kind |-> "json", token |-> t, expired |-> x, refresh_token |-> r, scopes |-> s]

Tokens == {Json(t, x, r, s) : t \in BOOLEAN, x \in BOOLEAN, r \in BOOLEAN, s \in SUBSET SCOPES}

Unset == [kind |-> "unset"]
EmptyStr == [kind |-> "empty"]
Malformed == [kind |-> "malformed"]
Absent == [kind |-> "absent"]

\* the token records a deployment or an earlier run may have left behind
StoredTokens == {
    Json(TRUE, FALSE, TRUE, SCOPES),
    Json(TRUE, FALSE, TRUE, {"gmail.readonly"}),
    Json(TRUE, TRUE, TRUE, SCOPES),
    Json(TRUE, TRUE, FALSE, SCOPES),
    Json(FALSE, FALSE, TRUE, SCOPES) }

EnvValues == {Unset, EmptyStr, Malformed} \cup StoredTokens
FileValues == {Absent, Malformed} \cup StoredTokens

----------------------------------------------------------------------------
\* Credentials objects

None == [kind |-> "none"]

Creds(t, x, r, s) == [kind |-> "creds", token |-> t, expired |-> x, refresh_token |-> r, scopes |-> s]

\* Credentials.from_authorized_user_info(token_data, SCOPES): the scopes
\* argument replaces whatever scopes the record lists
from_authorized_user_info(token_data, scopes) ==
    Creds(token_data.token, token_data.expired, token_data.refresh_token, scopes)

\* creds.to_json()
to_json(creds) == Json(creds.token, creds.expired, creds.refresh_token, creds.scopes)

\* creds.valid: an access token is present and it is not expired
\* variant: the expiry test the wrong way round
valid_expiry_inverted(creds) == creds.token /\ creds.expired

valid(creds) == creds.token /\ ~creds.expired

\* creds.refresh(Request()) succeeding: new access token and expiry, the
\* refresh token and scopes stay
refresh(creds) == [creds EXCEPT !.token = TRUE, !.expired = FALSE]

\* what flow.run_local_server(port=0) may give: a fresh grant for SCOPES,
\* with or without a refresh token, or a failure (denied, timeout, no
\* client-secret file)
FlowFailure == [kind |-> "failure"]

FlowOutcomes == {Creds(TRUE, FALSE, r, SCOPES) : r \in BOOLEAN} \cup {FlowFailure}

----------------------------------------------------------------------------
\* get_credentials

\* os.environ.get(env_var) is truthy: set and not the empty string
is_set(v) == v.kind \notin {"unset", "empty"}

Raise(e) == [kind |-> e, creds |-> None]
Return(creds) == [kind |-> "Credential", creds |-> creds]

Out(res, ld, trace, fs) == [result |-> res, loaded |-> ld, io |-> trace, files |-> fs]

\* `account not in ACCOUNTS`
unknown(a) == a \notin ACCOUNTS

\* lines 38-47: which source is read, and what it holds
\* [src, data, io]
\* variant: the token file tried before the environment variable
load_file_first(a) ==
    IF files[a] # Absent
    THEN [src |-> "file", data |-> files[a], io |-> <<"environ.get", "exists", "read">>]
    ELSE IF is_set(env[a])
    THEN [src |-> "env", data |-> env[a], io |-> <<"environ.get", "exists">>]
    ELSE [src |-> "none", data |-> Absent, io |-> <<"environ.get", "exists">>]

load(a) ==
    IF is_set(env[a])
    THEN [src |-> "env", data |-> env[a], io |-> <<"environ.get">>]
    ELSE IF files[a] # Absent
    THEN [src |-> "file", data |-> files[a], io |-> <<"environ.get", "exists", "read">>]
    ELSE [src |-> "none", data |-> Absent, io |-> <<"environ.get", "exists">>]

\* line 54: `if os.environ.get(env_var)`
\* variant: no deployed-environment guard
deployed_never(a) == FALSE

deployed(a) == is_set(env[a])

\* lines 56-59: the interactive flow and the write of its token
\* variant: the flow's token returned but not written
authorize_no_write(a, ld, trace, flow_out) ==
    IF flow_out = FlowFailure
    THEN Out(Raise("FlowError"), ld, trace \o <<"run_local_server">>, files)
    ELSE Out(Return(flow_out), ld, trace \o <<"run_local_server">>, files)

authorize(a, ld, trace, flow_out) ==
    IF flow_out = FlowFailure
    THEN Out(Raise("FlowError"), ld, trace \o <<"run_local_server">>, files)
    ELSE Out(Return(flow_out), ld, trace \o <<"run_local_server", "write_text">>,
             [files EXCEPT ![a] = to_json(flow_out)])

\* lines 49-61
validate(a, creds, ld, trace, refresh_ok, flow_out) ==
    IF creds # None /\ valid(creds)
    THEN Out(Return(creds), ld, trace, files)
    ELSE IF creds # None /\ creds.expired /\ creds.refresh_token
    THEN IF refresh_ok
         THEN Out(Return(refresh(creds)), ld, trace \o <<"refresh:ok">>, files)
         ELSE Out(Raise("RefreshError"), ld, trace \o <<"refresh:failed">>, files)
    ELSE IF deployed(a)
    THEN Out(Raise("RuntimeError"), ld, trace \o <<"environ.get">>, files)
    ELSE authorize(a, ld, trace \o <<"environ.get">>, flow_out)

\* lines 38-61, for an account of ACCOUNTS
resolve(a, refresh_ok, flow_out) ==
    LET l == load(a) IN
    IF l.data = Malformed
    THEN Out(Raise("JSONDecodeError"), Absent, l.io, files)
    ELSE IF l.src = "none"
    THEN validate(a, None, Absent, l.io, refresh_ok, flow_out)
    ELSE validate(a, from_authorized_user_info(l.data, SCOPES), l.data, l.io,
                  refresh_ok, flow_out)

\* the whole of get_credentials(account), lines 33-61
\* variant: an unknown name resolved as the default account
get_credentials_default_account(a, refresh_ok, flow_out) ==
    resolve(IF unknown(a) THEN "personal" ELSE a, refresh_ok, flow_out)

get_credentials(a, refresh_ok, flow_out) ==
    IF unknown(a)
    THEN Out(Raise("ValueError"), Absent, <<>>, files)
    ELSE resolve(a, refresh_ok, flow_out)

----------------------------------------------------------------------------
\* Calendar tools

\* most calendar write calls (create, update) in one run
MaxWrites == 1

\* most optional arguments one call supplies (the others are left None)
MaxSupplied == 1

\* most accounts that have an environment variable or a token file at start
MaxConfigured == 1

\* len('YYYY-MM-DD'), the length that makes an all-day boundary
AllDayLen == 10

\* an optional str argument: None, or a str
Str(s) == [kind |-> "str", s |-> s]

\* Python truthiness of an optional str: not None and not ""
truthy(x) == x # None /\ x.s # ""

DateStrings == {"2025-01-20", "2025-01-20T10:00:00"}
Timezones == {"UTC", "Asia/Taipei"}
Summaries == {"Standup"}
Texts == {"Notes"}

OptDate == {None, Str("")} \cup {Str(s) : s \in DateStrings}
OptText == {None, Str("")} \cup {Str(s) : s \in Texts}
OptSummary == {None, Str(""), Str("Retro")}

\* event[key] = value on a dict
Put(d, k, v) == [x \in DOMAIN d \cup {k} |-> IF x = k THEN v ELSE d[x]]

\* {"date": s, "timeZone": tz} if is_all_day else {"dateTime": s, "timeZone": tz}
boundary(is_all_day, s, tz) ==
    IF is_all_day THEN [date |-> s, timeZone |-> tz] ELSE [dateTime |-> s, timeZone |-> tz]

\* no request body was sent
NoBody == [x \in {} |-> None]

\* lines 219-230: the body calendar_create_event inserts
create_body(summary, start, end, description, location, timezone) ==
    LET is_all_day == Len(start) = AllDayLen
        event == [summary |-> summary,
                  start |-> boundary(is_all_day, start, timezone),
                  end |-> boundary(is_all_day, end, timezone)]
        e1 == IF truthy(description) THEN Put(event, "description", description.s) ELSE event
        e2 == IF truthy(location) THEN Put(e1, "location", location.s) ELSE e1
    IN e2

\* lines 254-265: the body calendar_update_event sends back
\* variant: description and location tested for truthiness, as summary is
update_body_truthy_text(event, summary, start, end, description, location, timezone) ==
    LET e1 == IF truthy(summary) THEN Put(event, "summary", summary.s) ELSE event
        e2 == IF truthy(description) THEN Put(e1, "description", description.s) ELSE e1
        e3 == IF truthy(location) THEN Put(e2, "location", location.s) ELSE e2
        e4 == IF truthy(start)
              THEN Put(e3, "start", boundary(Len(start.s) = AllDayLen, start.s, timezone))
              ELSE e3
        e5 == IF truthy(end)
              THEN Put(e4, "end", boundary(Len(end.s) = AllDayLen, end.s, timezone))
              ELSE e4
    IN e5

update_body(event, summary, start, end, description, location, timezone) ==
    LET e1 == IF truthy(summary) THEN Put(event, "summary", summary.s) ELSE event
        e2 == IF description # None THEN Put(e1, "description", description.s) ELSE e1
        e3 == IF location # None THEN Put(e2, "location", location.s) ELSE e2
        e4 == IF truthy(start)
              THEN Put(e3, "start", boundary(Len(start.s) = AllDayLen, start.s, timezone))
              ELSE e3
        e5 == IF truthy(end)
              THEN Put(e4, "end", boundary(Len(end.s) = AllDayLen, end.s, timezone))
              ELSE e4
    IN e5

\* cal.events().insert(...): the service stores the body under a fresh id
insert_into(store, b) ==
    LET id == Cardinality(DOMAIN store) + 1
    IN [x \in DOMAIN store \cup {id} |-> IF x = id THEN b ELSE store[x]]

\* a calendar without events
NoEvents == [x \in {} |-> NoBody]

----------------------------------------------------------------------------
\* The tools

NoArgs == [x \in {} |-> None]

\* the accounts the calendar tools are called for
CalAccounts == {"personal", "nobody"}

\* the outcomes get_credentials(a) can have here, over what the identity
\* provider answers to a refresh and what the interactive flow gives
Outcomes(a) == {get_credentials(a, refresh_ok, flow_out) : refresh_ok \in BOOLEAN, flow_out \in FlowOutcomes}

\* how many of the optional arguments are not None
Supplied(opts) == Cardinality({i \in DOMAIN opts : opts[i] # None})

\* the arguments of one calendar_create_event call
CreateArgs ==
    {r \in [summary : Summaries, start : DateStrings, end : DateStrings,
            description : OptText, location : OptText, timezone : Timezones] :
        Supplied(<<r.description, r.location>>) <= MaxSupplied}

\* the arguments of one calendar_update_event call, but for the event id
UpdateArgs ==
    {r \in [summary : OptSummary, start : OptDate, end : OptDate,
            description : OptText, location : OptText, timezone : Timezones] :
        Supplied(<<r.summary, r.start, r.end, r.description, r.location>>) <= MaxSupplied}

\* the ids an update names: those of the calendar's events and one it lacks
EventIds == 1..(Cardinality(DOMAIN events) + 1)

\* what every tool does first: get_gmail / get_calendar -> get_credentials
Resolved(name, a, c) ==
    /\ tool' = name
    /\ account' = a
    /\ loaded' = c.loaded
    /\ result' = c.result
    /\ io' = c.io
    /\ files' = c.files
    /\ UNCHANGED env

\* gmail_get_profile(account), lines 135-140: resolve, then one read-only call
gmail_get_profile ==
    \E a \in AccountNames : \E c \in Outcomes(a) :
        /\ Resolved("gmail_get_profile", a, c)
        /\ args' = NoArgs
        /\ body' = NoBody
        /\ UNCHANGED <<events, writes>>

\* calendar_create_event(...), lines 205-233
calendar_create_event ==
    /\ writes < MaxWrites
    /\ writes' = writes + 1
    /\ \E a \in CalAccounts, r \in CreateArgs : \E c \in Outcomes(a) :
        /\ Resolved("calendar_create_event", a, c)
        /\ args' = r
        /\ IF c.result.kind = "Credential"
           THEN /\ body' = create_body(r.summary, r.start, r.end, r.description,
                                       r.location, r.timezone)
                /\ events' = insert_into(events, body')
           ELSE /\ body' = NoBody
                /\ UNCHANGED events

\* calendar_update_event(...), lines 236-268
calendar_update_event ==
    /\ writes < MaxWrites
    /\ writes' = writes + 1
    /\ \E a \in CalAccounts, event_id \in EventIds, r \in UpdateArgs : \E c \in Outcomes(a) :
        /\ Resolved("calendar_update_event", a, c)
        /\ args' = [event_id |-> event_id] @@ r
        /\ IF c.result.kind = "Credential" /\ event_id \in DOMAIN events
           THEN /\ body' = update_body(events[event_id], r.summary, r.start, r.end,
                                       r.description, r.location, r.timezone)
                /\ events' = [events EXCEPT ![event_id] = body']
           ELSE /\ body' = NoBody
                /\ UNCHANGED events

----------------------------------------------------------------------------
\* Specifications

NoCall ==
    /\ tool = "none"
    /\ account = "none"
    /\ loaded = Absent
    /\ result = [kind |-> "none", creds |-> None]
    /\ io = <<>>
    /\ args = NoArgs
    /\ body = NoBody
    /\ writes = 0

\* the accounts that have an environment variable or a token file
Configured == {a \in ACCOUNTS : env[a] # Unset \/ files[a] # Absent}

\* any configuration of up to MaxConfigured accounts' environment variables
\* and token files
Init ==
    /\ env \in [ACCOUNTS -> EnvValues]
    /\ files \in [ACCOUNTS -> FileValues]
    /\ Cardinality(Configured) <= MaxConfigured
    /\ events = NoEvents
    /\ NoCall

Next == gmail_get_profile

Spec == Init /\ [][Next]_vars

\* events made earlier: all-day or timed, with or without description and location
ExistingEvents ==
    {create_body("Standup", s, s, d, d, "UTC") : s \in DateStrings, d \in {None, Str("Notes")}}

\* a local install whose accounts are all authorized; the calendar is empty
\* or holds one event made earlier
InitCal ==
    /\ env = [a \in ACCOUNTS |-> Unset]
    /\ files = [a \in ACCOUNTS |-> Json(TRUE, FALSE, TRUE, SCOPES)]
    /\ \/ events = NoEvents
       \/ \E e \in ExistingEvents : events = insert_into(NoEvents, e)
    /\ NoCall

NextCal == calendar_create_event \/ calendar_update_event

SpecCal == InitCal /\ [][NextCal]_vars

----------------------------------------------------------------------------
\* Properties of get_credentials (checked under Spec)

Range(f) == {f[i] : i \in DOMAIN f}

\* a token record that is neither valid nor refreshable: no refresh can be tried
Unusable(t) == ~(t.token /\ ~t.expired) /\ ~(t.expired /\ t.refresh_token)

FlowInvoked(trace) == "run_local_server" \in Range(trace)
FileWritten(trace) == "write_text" \in Range(trace)
FileRead(trace) == "read" \in Range(trace) \/ "exists" \in Range(trace)
RefreshTried(trace) == "refresh:ok" \in Range(trace) \/ "refresh:failed" \in Range(trace)

\* C1: with the account's environment variable set to a token that is invalid
\* and cannot be refreshed, get_credentials fails with the deployed-environment
\* RuntimeError (TokenUnrecoverable), whatever the account's token file holds;
\* and with the variable set the interactive flow is never run and no token
\* file is written.
C1_DeployedGuard ==
    (account \in ACCOUNTS /\ is_set(env[account]))
        => /\ ~FlowInvoked(io)
           /\ ~FileWritten(io)
           /\ (env[account] \in Tokens /\ Unusable(env[account]))
                => result.kind = "RuntimeError"

C1_Witness ==
    /\ account \in ACCOUNTS
    /\ env[account] \in Tokens /\ Unusable(env[account])
    /\ files[account] \in Tokens /\ valid(files[account])
    /\ result.kind = "RuntimeError"

\* C2: after a successful refresh of an expired token, the refreshed token has
\* been written to the account's token file when the Credential is returned.
C2_RefreshPersisted ==
    (result.kind = "Credential" /\ "refresh:ok" \in Range(io))
        => /\ FileWritten(io)
           /\ files[account] = to_json(result.creds)

\* C3: for a known account whose loaded token is present, not expired and
\* fully scoped, get_credentials returns the Credential of that token, tries
\* no refresh, runs no interactive flow and leaves every token file as it was.
C3_ValidTokenNoSideEffects ==
    [][(/\ account' \in ACCOUNTS
        /\ loaded' \in Tokens
        /\ loaded'.token /\ ~loaded'.expired /\ loaded'.scopes = SCOPES)
          => /\ result' = Return(from_authorized_user_info(loaded', SCOPES))
             /\ ~FlowInvoked(io') /\ ~FileWritten(io') /\ ~RefreshTried(io')
             /\ files' = files]_vars

C3_Witness ==
    /\ account \in ACCOUNTS
    /\ loaded \in Tokens /\ loaded.token /\ ~loaded.expired /\ loaded.scopes = SCOPES
    /\ files[account] = loaded
    /\ result.kind = "Credential"

\* C4: when the account's environment variable holds a token and the token
\* file holds a different one, the environment token is the one loaded; the
\* file is neither looked up nor read, and any Credential returned comes from
\* the environment token.
C4_EnvOverFile ==
    [][(/\ account' \in ACCOUNTS
        /\ env[account'] \in Tokens
        /\ files[account'] \in Tokens
        /\ env[account'] # files[account'])
          => /\ loaded' = env[account']
             /\ ~FileRead(io')
             /\ result'.kind = "Credential"
                  => result'.creds \in
                       {from_authorized_user_info(env[account'], SCOPES),
                        refresh(from_authorized_user_info(env[account'], SCOPES))}]_vars

C4_Witness ==
    /\ account \in ACCOUNTS
    /\ env[account] \in Tokens
    /\ files[account] \in Tokens
    /\ env[account] # files[account]
    /\ valid(env[account]) /\ ~valid(files[account])
    /\ result.kind = "Credential"

\* C5: for an account name outside ACCOUNTS, get_credentials fails with the
\* unknown-account ValueError before any access: no environment variable or
\* file is read, nothing is written, no refresh and no interactive flow.
C5_UnknownAccount ==
    [][account' \notin ACCOUNTS
          => /\ result' = Raise("ValueError")
             /\ io' = <<>>
             /\ loaded' = Absent
             /\ files' = files
             /\ env' = env]_vars

C5_Witness ==
    /\ tool = "gmail_get_profile"
    /\ account \notin ACCOUNTS
    /\ result.kind = "ValueError"

\* C6: in local context (environment variable unset or empty), when the token
\* file is absent or holds a token that is invalid and cannot be refreshed,
\* get_credentials runs the interactive flow; the token the flow gives is
\* written to the account's token file and to nothing else, and the
\* Credential returned is that token's.
C6_LocalInteractive ==
    [][(/\ account' \in ACCOUNTS
        /\ ~is_set(env[account'])
        /\ \/ files[account'] = Absent
           \/ files[account'] \in Tokens /\ Unusable(files[account']))
          => /\ FlowInvoked(io')
             /\ env' = env
             /\ result'.kind \in {"Credential", "FlowError"}
             /\ result'.kind = "FlowError" => files' = files
             /\ result'.kind = "Credential"
                  => /\ result'.creds \in FlowOutcomes
                     /\ FileWritten(io')
                     /\ files' = [files EXCEPT ![account'] = to_json(result'.creds)]]_vars

C6_Witness ==
    /\ account \in ACCOUNTS
    /\ env[account] = EmptyStr
    /\ loaded \in Tokens /\ Unusable(loaded)
    /\ FlowInvoked(io)
    /\ result.kind = "Credential"
    /\ files[account] = to_json(result.creds)

\* C9: when the refresh of an expired token fails, resolution goes on to the
\* no-usable-token step: the deployed-environment RuntimeError when the
\* environment variable is set, the interactive flow when it is not.
C9_RefreshFailureFallsThrough ==
    "refresh:failed" \in Range(io)
        => IF is_set(env[account])
           THEN result.kind = "RuntimeError"
           ELSE FlowInvoked(io) /\ result.kind \in {"Credential", "FlowError"}

\* C10: a loaded token that is not expired but lacks a required scope is not
\* used: the deployed-environment RuntimeError when the environment variable
\* is set, the interactive flow when it is not.
C10_MissingScopeInvalid ==
    (account \in ACCOUNTS /\ loaded \in Tokens /\ ~loaded.expired /\ loaded.scopes # SCOPES)
        => IF is_set(env[account])
           THEN result.kind = "RuntimeError"
           ELSE FlowInvoked(io)

----------------------------------------------------------------------------
\* Properties of the calendar tools (checked under SpecCal)

\* the start or end string a call gives, as a set: empty when it gives none
Given(x) == IF tool = "calendar_create_event" THEN {x}
            ELSE IF x = None THEN {} ELSE {x.s}

\* C7: in calendar_create_event and calendar_update_event, a start or end
\* string of exactly 10 characters is sent as a `date` field and one of any
\* other length as a `dateTime` field with the given timezone, each of start
\* and end by its own length.
C7_AllDayDetection ==
    (tool \in {"calendar_create_event", "calendar_update_event"} /\ body # NoBody)
        => \A f \in {"start", "end"} : \A s \in Given(args[f]) :
             IF Len(s) = 10
             THEN "date" \in DOMAIN body[f] /\ body[f].date = s
             ELSE body[f] = [dateTime |-> s, timeZone |-> args.timezone]

\* field f is the same in both events: absent in both, or equal
SameField(old, new, f) ==
    /\ f \in DOMAIN old <=> f \in DOMAIN new
    /\ f \in DOMAIN old => old[f] = new[f]

\* C8: calendar_update_event sends back the existing event with every field
\* whose argument is None as it was; description and location given as the
\* empty string become the empty string; the other events stay.
C8_PartialUpdate ==
    [][(tool' = "calendar_update_event" /\ body' # NoBody)
          => LET old == events[args'.event_id] IN
             /\ events' = [events EXCEPT ![args'.event_id] = body']
             /\ \A f \in {"summary", "start", "end", "description", "location"} :
                  args'[f] = None => SameField(old, body', f)
             /\ \A f \in {"description", "location"} :
                  args'[f] = Str("") => f \in DOMAIN body' /\ body'[f] = ""]_vars

C8_Witness ==
    /\ tool = "calendar_update_event"
    /\ args.location = Str("") /\ args.description = None
    /\ body # NoBody
    /\ body.location = ""
    /\ "description" \in DOMAIN body /\ body.description = "Notes"

====
